---- MODULE Spec2Model ----
(***************************************************************************)
(* A model of termkit's value types and their pure operations:             *)
(*   - canvas.py  Cell (a frozen dataclass) and Cell.overlay               *)
(*   - style.py   Color, gamma_expansion, difference, closest_color, mix   *)
(*   - color.py   the second Color implementation (distance, mix, ...)     *)
(* Python values are modelled as records; a call returns either            *)
(* Return(v) or Raise(e), the exception that leaves the call.              *)
(***************************************************************************)
EXTENDS Integers, Sequences, FiniteSets, TLC

(* ------------------------------------------------------------------ *)
(* Bounds of the model                                                 *)
(* ------------------------------------------------------------------ *)

\* largest attribute mask (fx) a generated Cell carries
MaxFx == 1
\* largest transparency mask passed to the five-argument Cell constructor
MaxFxt == 1
\* longest palette passed to closest_color
MaxPalette == 2
\* largest row or column count passed to Canvas and to resize
MaxDim == 2
\* most resize and overlay calls made on one Canvas
MaxResizes == 2
\* writes the sink accepts during one Terminal call before its write raises
SinkBudget == 2
\* characters in one chunk of input given to the key decoder
MaxChunk == 2
\* decoder calls in one session
MaxKeyCalls == 3
\* characters after the '#' of a hex key
MaxHexLen == 6
\* the largest row or column given to move_to
MaxCoord == 1

(* ------------------------------------------------------------------ *)
(* Python values                                                       *)
(* ------------------------------------------------------------------ *)

\* Python's None
None == [none |-> TRUE]

\* the outcome of a call: a value, or the exception raised
Return(v) == [raised |-> "no", value |-> v]
Raise(e) == [raised |-> e, value |-> None]

\* style.Color: a frozen dataclass of three channels
Color(red, green, blue) == [red |-> red, green |-> green, blue |-> blue]

Black == Color(0, 0, 0)
Red == Color(255, 0, 0)
Blue == Color(0, 0, 255)
White == Color(255, 255, 255)

\* a & b on non-negative Python ints
RECURSIVE BitAnd(_, _)
BitAnd(x, y) ==
  IF x = 0 \/ y = 0 THEN 0
  ELSE (IF x % 2 = 1 /\ y % 2 = 1 THEN 1 ELSE 0) + 2 * BitAnd(x \div 2, y \div 2)

\* a | b on non-negative Python ints
BitOr(x, y) == x + y - BitAnd(x, y)

\* a & ~b on non-negative Python ints (~b is -b-1 in two's complement)
BitAndNot(x, y) == x - BitAnd(x, y)

(* ------------------------------------------------------------------ *)
(* canvas.py: Cell                                                     *)
(* ------------------------------------------------------------------ *)

\* the fields the dataclass declares, in order, and their defaults
CellFields == <<"char", "fg", "bg", "fx">>
CellDefaults == <<"", None, None, 0>>

\* the generated __init__: positional arguments fill the declared fields in
\* order; more arguments than fields is a TypeError
CellNew(args) ==
  IF Len(args) > Len(CellFields) THEN Raise("TypeError")
  ELSE LET arg(i) == IF i <= Len(args) THEN args[i] ELSE CellDefaults[i]
       IN Return([char |-> arg(1), fg |-> arg(2), bg |-> arg(3), fx |-> arg(4)])

\* the generated __eq__ (eq=True): the tuples of declared fields are compared
CellEq(x, y) == <<x.char, x.fg, x.bg, x.fx>> = <<y.char, y.fg, y.bg, y.fx>>

\* attribute lookup on an instance: only what __init__ stored is there
HasAttr(obj, name) == name \in DOMAIN obj

\* Cell.overlay(self, other): other is drawn over self
overlay(self, other) ==
  LET char == IF other.char # "" THEN other.char ELSE self.char     \* l.83
      fg == IF other.fg # None THEN other.fg ELSE self.fg           \* l.84
      bg == IF other.bg # None THEN other.bg ELSE self.bg           \* l.85
  IN IF ~HasAttr(other, "fxt") THEN Raise("AttributeError")         \* l.90
     ELSE IF ~HasAttr(other, "ftx") THEN Raise("AttributeError")    \* l.92
     ELSE IF ~HasAttr(self, "fxt") THEN Raise("AttributeError")     \* l.93
     ELSE LET fx == BitOr(BitAndNot(other.fx, other.fxt),
                          BitAnd(self.fx, other.fxt))               \* l.90-91
              fxt == BitAndNot(other.ftx,
                               BitAnd(self.fxt, other.fxt))         \* l.92-93
          IN CellNew(<<char, fg, bg, fx, fxt>>)                     \* l.94

\* Cell.underlay(self, other)
underlay(self, other) == overlay(other, self)

\* Cell.__add__(self, other), other a Cell: the result of self.underlay(other)
\* is dropped, the method has no return statement
cell_add(self, other) ==
  LET r == underlay(self, other)
  IN IF r.raised # "no" THEN r ELSE Return(None)

(* ------------------------------------------------------------------ *)
(* style.py: gamma conversion and Color                                *)
(* ------------------------------------------------------------------ *)

\* the largest value of a colour channel
ChannelMax == 255

\* a gamma exponent is the rational <<numerator, denominator>>
GAMMA == <<22, 10>>
GammaOne == <<1, 1>>
\* 1 / gamma
Reciprocal(gamma) == <<gamma[2], gamma[1]>>

\* round((channel / 255) ** 2.2 * 255) for channel = 0 .. 255, as CPython
\* evaluates it (no value lies within 0.0006 of a rounding boundary)
ExpansionTable ==
  <<  0,   0,   0,   0,   0,   0,   0,   0,   0,   0,   0,   0,   0,   0,   0,   1,
      1,   1,   1,   1,   1,   1,   1,   1,   1,   2,   2,   2,   2,   2,   2,   2,
      3,   3,   3,   3,   3,   4,   4,   4,   4,   5,   5,   5,   5,   6,   6,   6,
      6,   7,   7,   7,   8,   8,   8,   9,   9,   9,  10,  10,  11,  11,  11,  12,
     12,  13,  13,  13,  14,  14,  15,  15,  16,  16,  17,  17,  18,  18,  19,  19,
     20,  20,  21,  22,  22,  23,  23,  24,  25,  25,  26,  26,  27,  28,  28,  29,
     30,  30,  31,  32,  33,  33,  34,  35,  35,  36,  37,  38,  39,  39,  40,  41,
     42,  43,  43,  44,  45,  46,  47,  48,  49,  49,  50,  51,  52,  53,  54,  55,
     56,  57,  58,  59,  60,  61,  62,  63,  64,  65,  66,  67,  68,  69,  70,  71,
     73,  74,  75,  76,  77,  78,  79,  81,  82,  83,  84,  85,  87,  88,  89,  90,
     91,  93,  94,  95,  97,  98,  99, 100, 102, 103, 105, 106, 107, 109, 110, 111,
    113, 114, 116, 117, 119, 120, 121, 123, 124, 126, 127, 129, 130, 132, 133, 135,
    137, 138, 140, 141, 143, 145, 146, 148, 149, 151, 153, 154, 156, 158, 159, 161,
    163, 165, 166, 168, 170, 172, 173, 175, 177, 179, 181, 182, 184, 186, 188, 190,
    192, 194, 196, 197, 199, 201, 203, 205, 207, 209, 211, 213, 215, 217, 219, 221,
    223, 225, 227, 229, 231, 234, 236, 238, 240, 242, 244, 246, 248, 251, 253, 255>>

\* round((channel / 255) ** (1 / 2.2) * 255) for channel = 0 .. 255 (no value
\* lies within 0.006 of a rounding boundary)
CompressionTable ==
  <<  0,  21,  28,  34,  39,  43,  46,  50,  53,  56,  59,  61,  64,  66,  68,  70,
     72,  74,  76,  78,  80,  82,  84,  85,  87,  89,  90,  92,  93,  95,  96,  98,
     99, 101, 102, 103, 105, 106, 107, 109, 110, 111, 112, 114, 115, 116, 117, 118,
    119, 120, 122, 123, 124, 125, 126, 127, 128, 129, 130, 131, 132, 133, 134, 135,
    136, 137, 138, 139, 140, 141, 142, 143, 144, 144, 145, 146, 147, 148, 149, 150,
    151, 151, 152, 153, 154, 155, 156, 156, 157, 158, 159, 160, 160, 161, 162, 163,
    164, 164, 165, 166, 167, 167, 168, 169, 170, 170, 171, 172, 173, 173, 174, 175,
    175, 176, 177, 178, 178, 179, 180, 180, 181, 182, 182, 183, 184, 184, 185, 186,
    186, 187, 188, 188, 189, 190, 190, 191, 192, 192, 193, 194, 194, 195, 195, 196,
    197, 197, 198, 199, 199, 200, 200, 201, 202, 202, 203, 203, 204, 205, 205, 206,
    206, 207, 207, 208, 209, 209, 210, 210, 211, 212, 212, 213, 213, 214, 214, 215,
    215, 216, 217, 217, 218, 218, 219, 219, 220, 220, 221, 221, 222, 223, 223, 224,
    224, 225, 225, 226, 226, 227, 227, 228, 228, 229, 229, 230, 230, 231, 231, 232,
    232, 233, 233, 234, 234, 235, 235, 236, 236, 237, 237, 238, 238, 239, 239, 240,
    240, 241, 241, 242, 242, 243, 243, 244, 244, 245, 245, 246, 246, 247, 247, 248,
    248, 249, 249, 249, 250, 250, 251, 251, 252, 252, 253, 253, 254, 254, 255, 255>>

\* gamma_expansion(channel, gamma) = round((channel / 255) ** gamma * 255)
gamma_expansion(channel, gamma) ==
  CASE gamma = GAMMA -> ExpansionTable[channel + 1]
    [] gamma = Reciprocal(GAMMA) -> CompressionTable[channel + 1]
    [] gamma = GammaOne -> channel

\* a plausible slip: the compression left out
gamma_compression_linear(channel, gamma) == channel

\* gamma_compression(channel, gamma)
gamma_compression(channel, gamma) == gamma_expansion(channel, Reciprocal(gamma))

\* iter(color): the channels in order
Channels(color) == <<color.red, color.green, color.blue>>

Abs(x) == IF x < 0 THEN -x ELSE x

\* round(n / 2): Python rounds a half to the even neighbour
RoundHalf(n) ==
  IF n % 2 = 0 THEN n \div 2
  ELSE IF (n \div 2) % 2 = 0 THEN n \div 2 ELSE n \div 2 + 1

\* Color.difference(self, other, gamma)
difference(self, other, gamma) ==
  LET d(i) == Abs(gamma_expansion(Channels(self)[i], gamma)
                  - gamma_expansion(Channels(other)[i], gamma))
  IN d(1) + d(2) + d(3)

\* a plausible slip: a later element replaces the best on an equal key
RECURSIVE LastMin(_, _)
LastMin(keys, n) ==
  IF n = 1 THEN 1
  ELSE LET m == LastMin(keys, n - 1)
       IN IF keys[n] <= keys[m] THEN n ELSE m

\* min(seq, key=...) over the first n elements, by their keys: the scan keeps
\* the first element and replaces it only by one with a strictly smaller key,
\* so it ends on the first element whose key no other key is below
FirstMin(keys, n) ==
  CHOOSE m \in 1..n :
    /\ \A j \in 1..n : keys[m] <= keys[j]
    /\ \A j \in 1..(m - 1) : keys[j] # keys[m]

\* self in colors
Contains(colors, x) == \E i \in 1..Len(colors) : colors[i] = x

\* a plausible slip: the short circuit left out
closest_color_scan(self, colors, gamma) ==
  IF Len(colors) = 0 THEN Raise("ValueError")
  ELSE LET keys == [i \in 1..Len(colors) |-> difference(self, colors[i], gamma)]
           m == FirstMin(keys, Len(colors))
       IN Return(<<colors[m], m - 1>>)

\* Color.closest_color(self, colors, gamma): the pair returned
closest_color(self, colors, gamma) ==
  IF Contains(colors, self) THEN Return(<<self, 0>>)                 \* l.77-78
  ELSE IF Len(colors) = 0 THEN Raise("ValueError")                   \* min(())
  ELSE LET sums == [i \in 1..Len(colors) |-> <<colors[i], i - 1>>]   \* l.81
           keys == [i \in 1..Len(colors) |->
                      difference(self, sums[i][1], gamma)]
       IN Return(sums[FirstMin(keys, Len(colors))])                  \* l.82

\* Color.mix(self, other, gamma)
mix(self, other, gamma) ==
  LET ch(i) == gamma_compression(
                 RoundHalf(gamma_expansion(Channels(self)[i], gamma)
                           + gamma_expansion(Channels(other)[i], gamma)),
                 gamma)
  IN Return(Color(ch(1), ch(2), ch(3)))

(* ------------------------------------------------------------------ *)
(* color.py: the second Color implementation                           *)
(* ------------------------------------------------------------------ *)

\* color.Color(rgb): the channels are kept as one tuple; __eq__ compares it
ColorRgb(rgb) == [rgb |-> rgb]

\* Color.gamma_expansion (a static method with the same body)
color_gamma_expansion(channel, gamma) ==
  CASE gamma = GAMMA -> ExpansionTable[channel + 1]
    [] gamma = Reciprocal(GAMMA) -> CompressionTable[channel + 1]
    [] gamma = GammaOne -> channel

\* Color.gamma_compression
color_gamma_compression(channel, gamma) ==
  color_gamma_expansion(channel, Reciprocal(gamma))

\* Color.from_lrgb(lrgb, gamma=GAMMA)
color_from_lrgb(lrgb, gamma) ==
  ColorRgb([i \in 1..3 |-> color_gamma_compression(lrgb[i], gamma)])

\* Color.lrgb(gamma)
color_lrgb(self, gamma) ==
  [i \in 1..3 |-> color_gamma_expansion(self.rgb[i], gamma)]

\* Color.distance(other, gamma)
color_distance(self, other, gamma) ==
  LET s == color_lrgb(self, gamma)
      o == color_lrgb(other, gamma)
  IN Abs(s[1] - o[1]) + Abs(s[2] - o[2]) + Abs(s[3] - o[3])

\* Color.closest_color(colors, gamma): the Color returned
color_closest_color(self, colors, gamma) ==
  IF Contains(colors, self) THEN Return(self)                        \* l.148
  ELSE IF Len(colors) = 0 THEN Raise("ValueError")                   \* min([])
  ELSE LET sums == [i \in 1..Len(colors) |->
                      <<colors[i], color_distance(self, colors[i], gamma)>>]
           keys == [i \in 1..Len(colors) |-> sums[i][2]]
       IN Return(sums[FirstMin(keys, Len(colors))][1])               \* l.152

\* Color.mix(other, gamma): from_lrgb is called without the gamma
color_mix(self, other, gamma) ==
  LET s == color_lrgb(self, gamma)
      o == color_lrgb(other, gamma)
      mixed_color == [i \in 1..3 |-> RoundHalf(s[i] + o[i])]
  IN Return(color_from_lrgb(mixed_color, GAMMA))

(* ------------------------------------------------------------------ *)
(* canvas.py: Canvas                                                   *)
(* ------------------------------------------------------------------ *)

\* an optional int argument: NoneArg is None, Given(n) is the int n
NoneArg == <<>>
Given(n) == <<n>>

\* len(obj): a Cell defines no __len__
PyLen(obj) ==
  IF HasAttr(obj, "list") THEN Return(Len(obj.list)) ELSE Raise("TypeError")

\* [x] * n: empty for n <= 0
Repeat(x, n) == IF n <= 0 THEN <<>> ELSE [i \in 1..n |-> x]

\* del list[diff:] for a negative diff: the last -diff elements go, all of
\* them when the list is shorter
DelTail(list, diff) ==
  SubSeq(list, 1, IF Len(list) + diff > 0 THEN Len(list) + diff ELSE 0)

\* the outcome of a method on the Canvas: the list self.canvas as the method
\* left it, and the exception that left the method ("no": it returned)
Left(cv, exc) == [canvas |-> cv, raised |-> exc]

\* Canvas.rows
canvas_rows(cv) == Len(cv)

\* Canvas.cols
canvas_cols(cv) ==
  IF canvas_rows(cv) = 0 THEN Return(0)          \* l.124-125
  ELSE PyLen(cv[1])                              \* l.126

\* Canvas.resize, the rows part (l.129-134)
resize_rows(cv, rows, cols, fill) ==
  IF rows = NoneArg THEN Left(cv, "no")
  ELSE LET diff == rows[1] - canvas_rows(cv)
       IN IF diff > 0
          THEN LET n == IF cols # NoneArg /\ cols[1] # 0    \* cols or self.cols
                        THEN Return(cols[1])
                        ELSE canvas_cols(cv)
               IN IF n.raised # "no" THEN Left(cv, n.raised)
                  ELSE Left(cv \o Repeat(fill, n.value), "no")
          ELSE IF diff < 0 THEN Left(DelTail(cv, diff), "no")
          ELSE Left(cv, "no")

\* Canvas.resize, the cols part (l.136-142)
resize_cols(cv, cols, fill) ==
  IF cols = NoneArg THEN Left(cv, "no")
  ELSE LET width == canvas_cols(cv)
       IN IF width.raised # "no" THEN Left(cv, width.raised)
          ELSE LET diff == cols[1] - width.value
               IN IF diff > 0
                  THEN \* for row in self.canvas: row.extend(...)
                       IF Len(cv) = 0 THEN Left(cv, "no")
                       ELSE IF HasAttr(cv[1], "list")
                       THEN Left([i \in 1..Len(cv) |->
                                    [list |-> cv[i].list \o Repeat(fill, diff)]],
                                 "no")
                       ELSE Left(cv, "AttributeError")
                  ELSE IF diff < 0
                  THEN Left(cv, "UnboundLocalError")  \* row is not bound here
                  ELSE Left(cv, "no")

\* Canvas.resize(rows, cols, fill)
resize(cv, rows, cols, fill) ==
  LET r == resize_rows(cv, rows, cols, fill)
  IN IF r.raised # "no" THEN r ELSE resize_cols(r.canvas, cols, fill)

\* Canvas.__init__(rows, cols)
canvas_init(rows, cols) == resize(<<>>, rows, cols, CellNew(<<>>).value)

\* what a Canvas instance offers: its slot, its properties and its methods
CanvasAttributes == {"canvas", "rows", "cols", "resize"}

\* top.overlay(bottom): the attribute is looked up on the instance first
canvas_overlay(top, bottom) ==
  IF "overlay" \notin CanvasAttributes THEN Raise("AttributeError")
  ELSE Return(None)

(* ------------------------------------------------------------------ *)
(* escape.py: the colour table; term.py: Terminal                      *)
(* ------------------------------------------------------------------ *)

\* [c[0] for c in escape.COLORS]: the Colors of the 256 (Color, name)
\* pairs of the table.  Palette id i is entry i + 1.
ColorsPalette ==
  <<Color(0, 0, 0), Color(128, 0, 0), Color(0, 128, 0), Color(128, 128, 0),
    Color(0, 0, 128), Color(128, 0, 128), Color(0, 128, 128), Color(192, 192, 192),
    Color(128, 128, 128), Color(255, 0, 0), Color(0, 255, 0), Color(255, 255, 0),
    Color(0, 0, 255), Color(255, 0, 255), Color(0, 255, 255), Color(255, 255, 255),
    Color(0, 0, 0), Color(0, 0, 95), Color(0, 0, 135), Color(0, 0, 175),
    Color(0, 0, 215), Color(0, 0, 255), Color(0, 95, 0), Color(0, 95, 95),
    Color(0, 95, 135), Color(0, 95, 175), Color(0, 95, 215), Color(0, 95, 255),
    Color(0, 135, 0), Color(0, 135, 95), Color(0, 135, 135), Color(0, 135, 175),
    Color(0, 135, 215), Color(0, 135, 255), Color(0, 175, 0), Color(0, 175, 95),
    Color(0, 175, 135), Color(0, 175, 175), Color(0, 175, 215), Color(0, 175, 255),
    Color(0, 215, 0), Color(0, 215, 95), Color(0, 215, 135), Color(0, 215, 175),
    Color(0, 215, 215), Color(0, 215, 255), Color(0, 255, 0), Color(0, 255, 95),
    Color(0, 255, 135), Color(0, 255, 175), Color(0, 255, 215), Color(0, 255, 255),
    Color(95, 0, 0), Color(95, 0, 95), Color(95, 0, 135), Color(95, 0, 175),
    Color(95, 0, 215), Color(95, 0, 255), Color(95, 95, 0), Color(95, 95, 95),
    Color(95, 95, 135), Color(95, 95, 175), Color(95, 95, 215), Color(95, 95, 255),
    Color(95, 135, 0), Color(95, 135, 95), Color(95, 135, 135), Color(95, 135, 175),
    Color(95, 135, 215), Color(95, 135, 255), Color(95, 175, 0), Color(95, 175, 95),
    Color(95, 175, 135), Color(95, 175, 175), Color(95, 175, 215), Color(95, 175, 255),
    Color(95, 215, 0), Color(95, 215, 95), Color(95, 215, 135), Color(95, 215, 175),
    Color(95, 215, 215), Color(95, 215, 255), Color(95, 255, 0), Color(95, 255, 95),
    Color(95, 255, 135), Color(95, 255, 175), Color(95, 255, 215), Color(95, 255, 255),
    Color(135, 0, 0), Color(135, 0, 95), Color(135, 0, 135), Color(135, 0, 175),
    Color(135, 0, 215), Color(135, 0, 255), Color(135, 95, 0), Color(135, 95, 95),
    Color(135, 95, 135), Color(135, 95, 175), Color(135, 95, 215), Color(135, 95, 255),
    Color(135, 135, 0), Color(135, 135, 95), Color(135, 135, 135), Color(135, 135, 175),
    Color(135, 135, 215), Color(135, 135, 255), Color(135, 175, 0), Color(135, 175, 95),
    Color(135, 175, 135), Color(135, 175, 175), Color(135, 175, 215), Color(135, 175, 255),
    Color(135, 215, 0), Color(135, 215, 95), Color(135, 215, 135), Color(135, 215, 175),
    Color(135, 215, 215), Color(135, 215, 255), Color(135, 255, 0), Color(135, 255, 95),
    Color(135, 255, 135), Color(135, 255, 175), Color(135, 255, 215), Color(135, 255, 255),
    Color(175, 0, 0), Color(175, 0, 95), Color(175, 0, 135), Color(175, 0, 175),
    Color(175, 0, 215), Color(175, 0, 255), Color(175, 95, 0), Color(175, 95, 95),
    Color(175, 95, 135), Color(175, 95, 175), Color(175, 95, 215), Color(175, 95, 255),
    Color(175, 135, 0), Color(175, 135, 95), Color(175, 135, 135), Color(175, 135, 175),
    Color(175, 135, 215), Color(175, 135, 255), Color(175, 175, 0), Color(175, 175, 95),
    Color(175, 175, 135), Color(175, 175, 175), Color(175, 175, 215), Color(175, 175, 255),
    Color(175, 215, 0), Color(175, 215, 95), Color(175, 215, 135), Color(175, 215, 175),
    Color(175, 215, 215), Color(175, 215, 255), Color(175, 255, 0), Color(175, 255, 95),
    Color(175, 255, 135), Color(175, 255, 175), Color(175, 255, 215), Color(175, 255, 255),
    Color(215, 0, 0), Color(215, 0, 95), Color(215, 0, 135), Color(215, 0, 175),
    Color(215, 0, 215), Color(215, 0, 255), Color(215, 95, 0), Color(215, 95, 95),
    Color(215, 95, 135), Color(215, 95, 175), Color(215, 95, 215), Color(215, 95, 255),
    Color(215, 135, 0), Color(215, 135, 95), Color(215, 135, 135), Color(215, 135, 175),
    Color(215, 135, 215), Color(215, 135, 255), Color(215, 175, 0), Color(215, 175, 95),
    Color(215, 175, 135), Color(215, 175, 175), Color(215, 175, 215), Color(215, 175, 255),
    Color(215, 215, 0), Color(215, 215, 95), Color(215, 215, 135), Color(215, 215, 175),
    Color(215, 215, 215), Color(215, 215, 255), Color(215, 255, 0), Color(215, 255, 95),
    Color(215, 255, 135), Color(215, 255, 175), Color(215, 255, 215), Color(215, 255, 255),
    Color(255, 0, 0), Color(255, 0, 95), Color(255, 0, 135), Color(255, 0, 175),
    Color(255, 0, 215), Color(255, 0, 255), Color(255, 95, 0), Color(255, 95, 95),
    Color(255, 95, 135), Color(255, 95, 175), Color(255, 95, 215), Color(255, 95, 255),
    Color(255, 135, 0), Color(255, 135, 95), Color(255, 135, 135), Color(255, 135, 175),
    Color(255, 135, 215), Color(255, 135, 255), Color(255, 175, 0), Color(255, 175, 95),
    Color(255, 175, 135), Color(255, 175, 175), Color(255, 175, 215), Color(255, 175, 255),
    Color(255, 215, 0), Color(255, 215, 95), Color(255, 215, 135), Color(255, 215, 175),
    Color(255, 215, 215), Color(255, 215, 255), Color(255, 255, 0), Color(255, 255, 95),
    Color(255, 255, 135), Color(255, 255, 175), Color(255, 255, 215), Color(255, 255, 255),
    Color(8, 8, 8), Color(18, 18, 18), Color(28, 28, 28), Color(38, 38, 38),
    Color(48, 48, 48), Color(58, 58, 58), Color(68, 68, 68), Color(78, 78, 78),
    Color(88, 88, 88), Color(98, 98, 98), Color(108, 108, 108), Color(118, 118, 118),
    Color(128, 128, 128), Color(138, 138, 138), Color(148, 148, 148), Color(158, 158, 158),
    Color(168, 168, 168), Color(178, 178, 178), Color(188, 188, 188), Color(198, 198, 198),
    Color(208, 208, 208), Color(218, 218, 218), Color(228, 228, 228), Color(238, 238, 238)>>

\* An int argument of fg / bg (type(color) is int).
IntArg(n) == [int |-> n]

\* The sink self.stdout during one call: the strings written so far, how
\* many more writes the stream accepts before its write raises, and the
\* exception that is leaving the call ("no": none).
Sink(budget) == [written |-> <<>>, budget |-> budget, raised |-> "no"]

\* a plausible slip: the failure of the stream is swallowed
write_ignore(t, s) ==
  IF t.raised # "no" THEN t
  ELSE IF t.budget = 0 THEN t
  ELSE [t EXCEPT !.written = Append(@, s), !.budget = @ - 1]

\* self.stdout.write(s).  A statement after a raising one does not run.
write(t, s) ==
  IF t.raised # "no" THEN t
  ELSE IF t.budget = 0 THEN [t EXCEPT !.raised = "OSError"]
  ELSE [t EXCEPT !.written = Append(@, s), !.budget = @ - 1]

\* raise ValueError(...)
raise_in(t, exception) ==
  IF t.raised # "no" THEN t ELSE [t EXCEPT !.raised = exception]

\* bool(x) of an optional int: None and 0 are false
Truthy(x) == x # NoneArg /\ x[1] # 0

\* a plausible slip: the check of the row left out
move_to_row_unchecked(t, row, column) ==
  IF column # NoneArg /\ column[1] < 0 THEN raise_in(t, "ValueError")
  ELSE IF Truthy(column) /\ Truthy(row)
    THEN write(t, <<"MOVE_CURSOR", row[1], column[1]>>)
  ELSE IF column # NoneArg THEN write(t, <<"MOVE_COLUMN", column[1]>>)
  ELSE IF row # NoneArg THEN write(t, <<"MOVE_ROW", row[1]>>)
  ELSE t

\* Terminal.move_to(row, column)
move_to(t, row, column) ==
  IF column # NoneArg /\ column[1] < 0 THEN raise_in(t, "ValueError")  \* l.87
  ELSE IF row # NoneArg /\ row[1] < 0 THEN raise_in(t, "ValueError")   \* l.89
  ELSE IF Truthy(column) /\ Truthy(row)                                \* l.92
    THEN write(t, <<"MOVE_CURSOR", row[1], column[1]>>)
  ELSE IF column # NoneArg THEN write(t, <<"MOVE_COLUMN", column[1]>>) \* l.94
  ELSE IF row # NoneArg THEN write(t, <<"MOVE_ROW", row[1]>>)          \* l.96
  ELSE t

\* The text attributes of escape.py, each a Feature (set, reset).
StyleSetters == {"bold", "dim", "reverse", "underline", "italic",
                 "conceal", "blink", "strike", "charset", "hyperlink"}

\* Terminal.bold .. Terminal.hyperlink: escape.X[0 if state else 1] is
\* written on every call; the Terminal stores no style state.
set_attribute(t, name, state) == write(t, <<name, IF state THEN 0 ELSE 1>>)

reset_style(t) == write(t, <<"RESET_STYLE">>)

\* The `type(color) is int` branch of fg (ground = "FG") and bg ("BG").
color_id(t, ground, colors, id) ==
  IF colors >= 256 THEN write(t, <<ground \o "COLOR_256", id>>)
  ELSE IF colors >= 16
    THEN IF id >= 8 THEN write(t, <<ground \o "COLOR_16", id - 8>>)
         ELSE write(t, <<ground \o "COLOR_8", id>>)
  ELSE IF colors >= 8 THEN write(t, <<ground \o "COLOR_8", id>>)
  ELSE t

\* the Colors fg and bg are called with
TermColors == {Black, Red, White, Color(0, 0, 239)}

\* color.closest_color([c[0] for c in escape.COLORS]), evaluated once for
\* each of these Colors: the pairs (color, what the call returns)
ClosestPairs ==
  {<<color, closest_color(color, ColorsPalette, GAMMA)>> : color \in TermColors}
ClosestInTable(color) == (CHOOSE pair \in ClosestPairs : pair[1] = color)[2]

\* Terminal.fg / Terminal.bg.  A Color is first sent as the id that
\* closest_color returns in second place, then as the true-colour
\* sequence, whose template reads "{red};{blue};{green}".
set_color(t, ground, colors, color) ==
  IF color = None THEN write(t, <<"RESET_" \o ground \o "COLOR">>)
  ELSE IF HasAttr(color, "int") THEN color_id(t, ground, colors, color.int)
  ELSE LET closest_id == ClosestInTable(color).value[2]
       IN write(color_id(t, ground, colors, closest_id),
                <<ground \o "COLOR_TRUE", color.red, color.blue, color.green>>)

fg(t, colors, color) == set_color(t, "FG", colors, color)
bg(t, colors, color) == set_color(t, "BG", colors, color)

(* ------------------------------------------------------------------ *)
(* escape.py: Key and the key table; term.py: the key decoder          *)
(* ------------------------------------------------------------------ *)

\* Key.SHIFT, Key.META, Key.CTRL
SHIFT == 1
META == 2
CTRL == 4

\* escape.KEYS.  A Key is (key, value, modifiers); value, a str, is the
\* sequence of its characters ("ESC" is \x1b, "TAB" \t, "CR" \r, "LF" \n,
\* "BS" \x08, "DEL" \x7f).
KEYS ==
<<
  [key |-> "paste_begin", value |-> <<"ESC", "[", "2", "0", "0", "~">>, modifiers |-> 0],
  [key |-> "paste_end", value |-> <<"ESC", "[", "2", "0", "1", "~">>, modifiers |-> 0],
  [key |-> "up", value |-> <<"ESC", "[", "A">>, modifiers |-> 0],
  [key |-> "up", value |-> <<"ESC", "O", "A">>, modifiers |-> 0],
  [key |-> "up", value |-> <<"ESC", "[", "1", ";", "2", "A">>, modifiers |-> 1],
  [key |-> "up", value |-> <<"ESC", "[", "1", ";", "3", "A">>, modifiers |-> 2],
  [key |-> "up", value |-> <<"ESC", "[", "1", ";", "5", "A">>, modifiers |-> 4],
  [key |-> "up", value |-> <<"ESC", "[", "1", ";", "4", "A">>, modifiers |-> 5],
  [key |-> "up", value |-> <<"ESC", "[", "1", ";", "6", "A">>, modifiers |-> 5],
  [key |-> "up", value |-> <<"ESC", "[", "1", ";", "7", "A">>, modifiers |-> 6],
  [key |-> "up", value |-> <<"ESC", "[", "1", ";", "8", "A">>, modifiers |-> 5],
  [key |-> "down", value |-> <<"ESC", "[", "B">>, modifiers |-> 0],
  [key |-> "down", value |-> <<"ESC", "O", "B">>, modifiers |-> 0],
  [key |-> "down", value |-> <<"ESC", "[", "1", ";", "2", "B">>, modifiers |-> 1],
  [key |-> "down", value |-> <<"ESC", "[", "1", ";", "3", "B">>, modifiers |-> 2],
  [key |-> "down", value |-> <<"ESC", "[", "1", ";", "5", "B">>, modifiers |-> 4],
  [key |-> "down", value |-> <<"ESC", "[", "1", ";", "4", "B">>, modifiers |-> 5],
  [key |-> "down", value |-> <<"ESC", "[", "1", ";", "6", "B">>, modifiers |-> 5],
  [key |-> "down", value |-> <<"ESC", "[", "1", ";", "7", "B">>, modifiers |-> 6],
  [key |-> "down", value |-> <<"ESC", "[", "1", ";", "8", "B">>, modifiers |-> 5],
  [key |-> "right", value |-> <<"ESC", "[", "C">>, modifiers |-> 0],
  [key |-> "right", value |-> <<"ESC", "O", "C">>, modifiers |-> 0],
  [key |-> "right", value |-> <<"ESC", "[", "1", ";", "2", "C">>, modifiers |-> 1],
  [key |-> "right", value |-> <<"ESC", "[", "1", ";", "3", "C">>, modifiers |-> 2],
  [key |-> "right", value |-> <<"ESC", "[", "1", ";", "5", "C">>, modifiers |-> 4],
  [key |-> "right", value |-> <<"ESC", "[", "1", ";", "4", "C">>, modifiers |-> 5],
  [key |-> "right", value |-> <<"ESC", "[", "1", ";", "6", "C">>, modifiers |-> 5],
  [key |-> "right", value |-> <<"ESC", "[", "1", ";", "7", "C">>, modifiers |-> 6],
  [key |-> "right", value |-> <<"ESC", "[", "1", ";", "8", "C">>, modifiers |-> 5],
  [key |-> "left", value |-> <<"ESC", "[", "D">>, modifiers |-> 0],
  [key |-> "left", value |-> <<"ESC", "O", "D">>, modifiers |-> 0],
  [key |-> "left", value |-> <<"ESC", "[", "1", ";", "2", "D">>, modifiers |-> 1],
  [key |-> "left", value |-> <<"ESC", "[", "1", ";", "3", "D">>, modifiers |-> 2],
  [key |-> "left", value |-> <<"ESC", "[", "1", ";", "5", "D">>, modifiers |-> 4],
  [key |-> "left", value |-> <<"ESC", "[", "1", ";", "4", "D">>, modifiers |-> 5],
  [key |-> "left", value |-> <<"ESC", "[", "1", ";", "6", "D">>, modifiers |-> 5],
  [key |-> "left", value |-> <<"ESC", "[", "1", ";", "7", "D">>, modifiers |-> 6],
  [key |-> "left", value |-> <<"ESC", "[", "1", ";", "8", "D">>, modifiers |-> 5],
  [key |-> "return", value |-> <<"CR">>, modifiers |-> 0],
  [key |-> "return", value |-> <<"ESC", "CR">>, modifiers |-> 2],
  [key |-> "return", value |-> <<"LF">>, modifiers |-> 4],
  [key |-> "backspace", value |-> <<"DEL">>, modifiers |-> 0],
  [key |-> "backspace", value |-> <<"ESC", "DEL">>, modifiers |-> 2],
  [key |-> "backspace", value |-> <<"BS">>, modifiers |-> 4],
  [key |-> "backspace", value |-> <<"ESC", "ESC">>, modifiers |-> 6],
  [key |-> "delete", value |-> <<"ESC", "[", "3", "~">>, modifiers |-> 0],
  [key |-> "delete", value |-> <<"ESC", "[", "3", ";", "2", "~">>, modifiers |-> 1],
  [key |-> "delete", value |-> <<"ESC", "[", "3", ";", "3", "~">>, modifiers |-> 2],
  [key |-> "delete", value |-> <<"ESC", "[", "3", ";", "5", "~">>, modifiers |-> 4],
  [key |-> "delete", value |-> <<"ESC", "[", "3", ";", "4", "~">>, modifiers |-> 5],
  [key |-> "delete", value |-> <<"ESC", "[", "3", ";", "6", "~">>, modifiers |-> 5],
  [key |-> "delete", value |-> <<"ESC", "[", "3", ";", "7", "~">>, modifiers |-> 6],
  [key |-> "delete", value |-> <<"ESC", "[", "3", ";", "8", "~">>, modifiers |-> 5],
  [key |-> "tab", value |-> <<"TAB">>, modifiers |-> 0],
  [key |-> "tab", value |-> <<"ESC", "[", "Z">>, modifiers |-> 1],
  [key |-> "tab", value |-> <<"ESC", "TAB">>, modifiers |-> 2],
  [key |-> "tab", value |-> <<"ESC", "ESC", "[", "Z">>, modifiers |-> 5],
  [key |-> "escape", value |-> <<"ESC">>, modifiers |-> 0],
  [key |-> "insert", value |-> <<"ESC", "[", "2", "~">>, modifiers |-> 0],
  [key |-> "insert", value |-> <<"ESC", "[", "2", ";", "5", "~">>, modifiers |-> 4],
  [key |-> "home", value |-> <<"ESC", "[", "H">>, modifiers |-> 0],
  [key |-> "home", value |-> <<"ESC", "O", "H">>, modifiers |-> 0],
  [key |-> "home", value |-> <<"ESC", "[", "1", ";", "5", "H">>, modifiers |-> 4],
  [key |-> "end", value |-> <<"ESC", "[", "F">>, modifiers |-> 0],
  [key |-> "end", value |-> <<"ESC", "O", "F">>, modifiers |-> 0],
  [key |-> "end", value |-> <<"ESC", "[", "1", ";", "5", "F">>, modifiers |-> 4],
  [key |-> "pg_last", value |-> <<"ESC", "[", "5", "~">>, modifiers |-> 0],
  [key |-> "pg_last", value |-> <<"ESC", "[", "5", ";", "5", "~">>, modifiers |-> 4],
  [key |-> "pg_next", value |-> <<"ESC", "[", "6", "~">>, modifiers |-> 0],
  [key |-> "pg_next", value |-> <<"ESC", "[", "6", ";", "5", "~">>, modifiers |-> 4],
  [key |-> "f1", value |-> <<"ESC", "O", "P">>, modifiers |-> 0],
  [key |-> "f2", value |-> <<"ESC", "O", "Q">>, modifiers |-> 0],
  [key |-> "f3", value |-> <<"ESC", "O", "R">>, modifiers |-> 0],
  [key |-> "f4", value |-> <<"ESC", "O", "S">>, modifiers |-> 0],
  [key |-> "f5", value |-> <<"ESC", "[", "1", "5", "~">>, modifiers |-> 0],
  [key |-> "f6", value |-> <<"ESC", "[", "1", "7", "~">>, modifiers |-> 0],
  [key |-> "f7", value |-> <<"ESC", "[", "1", "8", "~">>, modifiers |-> 0],
  [key |-> "f8", value |-> <<"ESC", "[", "1", "9", "~">>, modifiers |-> 0],
  [key |-> "f9", value |-> <<"ESC", "[", "2", "0", "~">>, modifiers |-> 0],
  [key |-> "f10", value |-> <<"ESC", "[", "2", "1", "~">>, modifiers |-> 0],
  [key |-> "f11", value |-> <<"ESC", "[", "2", "3", "~">>, modifiers |-> 0],
  [key |-> "f12", value |-> <<"ESC", "[", "2", "4", "~">>, modifiers |-> 0]>>

\* What the dataclass decorator and the class body give a Key: there is
\* no __len__, no __iter__, and a Key is not a str.
KeyMethods == {"__init__", "__repr__", "__eq__", "__hash__",
               "__setattr__", "__delattr__"}

\* A Python list as a value.
PyList(s) == [list |-> s]

\* A call that never returns.
Hang == [raised |-> "hang", value |-> None]

\* Terminal.parse_keys(raw).  sorted(escape.KEYS, key=len) calls len on
\* every Key, which raises TypeError as soon as the table is not empty.
\* With an empty table the while loop never shortens raw, and an empty
\* raw falls off the end of the function: there is no return statement.
parse_keys(keys, raw) ==
  IF Len(keys) > 0 /\ "__len__" \notin KeyMethods THEN Raise("TypeError")
  ELSE IF Len(raw) > 0 THEN Hang
  ELSE Return(None)

\* Terminal.collect_events()
collect_events == Raise("NotImplementedError")

(* ------------------------------------------------------------------ *)
(* color.py: ColorPalette                                              *)
(* ------------------------------------------------------------------ *)

\* A str is the sequence of its characters; a key of colors[...] is an
\* int (IntArg) or a str.
StrArg(chars) == [str |-> chars]

\* ID_MAP of color.py: the 256 xterm colours, the same channels in the
\* same order as escape.COLORS
color_ID_MAP ==
  [i \in 1..Len(ColorsPalette) |-> ColorRgb(Channels(ColorsPalette[i]))]

\* NAME_MAP: each name with the id of its colour (NAME_MAP[name] is
\* colors[id])
color_NAME_MAP ==
  <<<<<<"b", "l", "a", "c", "k">>, 0>>,
    <<<<"m", "a", "r", "o", "o", "n">>, 1>>,
    <<<<"g", "r", "e", "e", "n">>, 2>>,
    <<<<"o", "l", "i", "v", "e">>, 3>>,
    <<<<"n", "a", "v", "y">>, 4>>,
    <<<<"p", "u", "r", "p", "l", "e">>, 5>>,
    <<<<"t", "e", "a", "l">>, 6>>,
    <<<<"s", "i", "l", "v", "e", "r">>, 7>>,
    <<<<"g", "r", "a", "y">>, 8>>,
    <<<<"g", "r", "e", "y">>, 8>>,
    <<<<"r", "e", "d">>, 9>>,
    <<<<"l", "i", "m", "e">>, 10>>,
    <<<<"y", "e", "l", "l", "o", "w">>, 11>>,
    <<<<"b", "l", "u", "e">>, 12>>,
    <<<<"f", "u", "c", "h", "s", "i", "a">>, 13>>,
    <<<<"m", "a", "g", "e", "n", "t", "a">>, 13>>,
    <<<<"a", "q", "u", "a">>, 14>>,
    <<<<"w", "h", "i", "t", "e">>, 15>>>>

\* the digits int() reads in base 16, by value
LowerHex == <<"0", "1", "2", "3", "4", "5", "6", "7", "8", "9",
              "a", "b", "c", "d", "e", "f">>
UpperHex == <<"0", "1", "2", "3", "4", "5", "6", "7", "8", "9",
              "A", "B", "C", "D", "E", "F">>
HexChars == {LowerHex[i] : i \in 1..16} \cup {UpperHex[i] : i \in 1..16}
DigitValue(ch) == (CHOOSE i \in 1..16 : ch \in {LowerHex[i], UpperHex[i]}) - 1

\* the characters str.strip() and int() drop at both ends
Whitespace == {" ", "TAB", "LF", "CR"}

RECURSIVE lstrip(_, _)
\* s.lstrip(chars): every leading character of the set is dropped
lstrip(s, chars) ==
  IF Len(s) = 0 \/ s[1] \notin chars THEN s
  ELSE lstrip(Tail(s), chars)

RECURSIVE rstrip(_, _)
rstrip(s, chars) ==
  IF Len(s) = 0 \/ s[Len(s)] \notin chars THEN s
  ELSE rstrip(SubSeq(s, 1, Len(s) - 1), chars)

\* s[n:]
DropFirst(s, n) == SubSeq(s, n + 1, Len(s))

\* the digit part of an int literal: digits, with single underscores
\* between them
DigitsWellFormed(s) ==
  /\ Len(s) > 0
  /\ \A i \in 1..Len(s) : s[i] \in HexChars \cup {"_"}
  /\ s[1] # "_"
  /\ s[Len(s)] # "_"
  /\ \A i \in 1..(Len(s) - 1) : ~(s[i] = "_" /\ s[i + 1] = "_")

RECURSIVE DigitsValue(_, _)
\* the value of the first n characters of a well-formed digit part
DigitsValue(s, n) ==
  IF n = 0 THEN 0
  ELSE IF s[n] = "_" THEN DigitsValue(s, n - 1)
  ELSE DigitsValue(s, n - 1) * 16 + DigitValue(s[n])

\* int(text, base=16): surrounding whitespace, a sign, the prefix 0x (and
\* one underscore after it) are accepted before the digits
int16(text) ==
  LET stripped == rstrip(lstrip(text, Whitespace), Whitespace)
      signed == Len(stripped) > 0 /\ stripped[1] \in {"+", "-"}
      unsigned == IF signed THEN Tail(stripped) ELSE stripped
      prefixed == /\ Len(unsigned) >= 2
                  /\ unsigned[1] = "0"
                  /\ unsigned[2] \in {"x", "X"}
      afterPrefix == IF prefixed THEN DropFirst(unsigned, 2) ELSE unsigned
      digits == IF prefixed /\ Len(afterPrefix) > 0 /\ afterPrefix[1] = "_"
                THEN Tail(afterPrefix) ELSE afterPrefix
      magnitude == DigitsValue(digits, Len(digits))
  IN IF ~DigitsWellFormed(digits) THEN Raise("ValueError")
     ELSE IF signed /\ stripped[1] = "-" THEN Return(0 - magnitude)
     ELSE Return(magnitude)

\* ID_MAP[key]: a negative index counts from the end
id_lookup(key) ==
  LET n == Len(ColorsPalette)
  IN IF key >= 0 /\ key < n THEN Return(color_ID_MAP[key + 1])
     ELSE IF key < 0 /\ key >= 0 - n THEN Return(color_ID_MAP[n + key + 1])
     ELSE Raise("IndexError")

\* NAME_MAP[key]
name_lookup(chars) ==
  IF \E i \in 1..Len(color_NAME_MAP) : color_NAME_MAP[i][1] = chars
  THEN LET i == CHOOSE i \in 1..Len(color_NAME_MAP) : color_NAME_MAP[i][1] = chars
       IN id_lookup(color_NAME_MAP[i][2])
  ELSE Raise("KeyError")

\* ColorPalette.__getitem__(key)
getitem(key) ==
  IF HasAttr(key, "int") THEN id_lookup(key.int)                       \* l.184-186
  ELSE IF Len(key.str) > 0 /\ key.str[1] = "#"                         \* l.189
    THEN LET rgb == int16(lstrip(key.str, {"#"}))                      \* l.190
         IN IF rgb.raised # "no" THEN rgb
            ELSE IF Len(key.str) = 7                                   \* l.196
              THEN Return(ColorRgb(<<(rgb.value \div 65536) % 256,
                                     (rgb.value \div 256) % 256,
                                     rgb.value % 256>>))
            ELSE Raise("KeyError")                                     \* l.206
  ELSE name_lookup(key.str)                                            \* l.205

(* ------------------------------------------------------------------ *)
(* State                                                               *)
(* ------------------------------------------------------------------ *)

VARIABLES
  a, b, c,      \* three Cells the program has constructed
  cellOp,       \* the Cell operation that has run ("init": none yet)
  cellOut,      \* what that operation produced
  target,       \* a Color: the receiver of mix and closest_color
  operand,      \* a Color: the argument of mix
  palette,      \* a sequence of Colors: the argument of closest_color
  colorOp,      \* the Color operation that has run ("init": none yet)
  colorOut,     \* what it produced, by style.py and by color.py
  canvas,       \* the list self.canvas of the Canvas instance
  canvasLive,   \* "none": not constructed, "live", "failed": __init__ raised
  canvasLog,    \* the calls made on the Canvas, oldest first
  termColors,   \* Terminal.colors, set by the constructor
  termPrev,     \* the Terminal call before the latest one
  termLast,     \* the latest Terminal call and what it wrote to stdout
  keyLog,       \* the decoder calls made on the Terminal, oldest first
  lookupKey,    \* the key given to colors[...]
  lookupOut     \* what the lookup produced

cellVars == <<a, b, c, cellOp, cellOut>>
colorVars == <<target, operand, palette, colorOp, colorOut>>
canvasVars == <<canvas, canvasLive, canvasLog>>
termVars == <<termColors, termPrev, termLast>>
keyVars == <<keyLog>>
lookupVars == <<lookupKey, lookupOut>>
vars == <<a, b, c, cellOp, cellOut, target, operand, palette, colorOp, colorOut,
          canvas, canvasLive, canvasLog, termColors, termPrev, termLast,
          keyLog, lookupKey, lookupOut>>

\* the variables a component's operations leave alone
otherThanCell == <<colorVars, canvasVars, termVars, keyVars, lookupVars>>
otherThanColor == <<cellVars, canvasVars, termVars, keyVars, lookupVars>>
otherThanCanvas == <<cellVars, colorVars, termVars, keyVars, lookupVars>>
otherThanTerm == <<cellVars, colorVars, canvasVars, keyVars, lookupVars>>
otherThanKeys == <<cellVars, colorVars, canvasVars, termVars, lookupVars>>
otherThanLookup == <<cellVars, colorVars, canvasVars, termVars, keyVars>>


(* ---------------- Cell operations ---------------- *)

Glyphs == {"", "x", "y"}
Foregrounds == {None, Black, Red}
Backgrounds == {None, Black}

\* every Cell the four-field constructor can build from the bounded values
Cells ==
  {CellNew(<<ch, f, g, x>>).value :
     ch \in Glyphs, f \in Foregrounds, g \in Backgrounds, x \in 0..MaxFx}

NoOut == [r1 |-> Return(None), r2 |-> Return(None), t1 |-> 0, t2 |-> 0]
NoColorOut == [style |-> Return(None), color |-> Return(None)]

\* the Cell operations are not in use
CellIdle ==
  /\ a = CellNew(<<>>).value
  /\ b = CellNew(<<>>).value
  /\ c = CellNew(<<>>).value
  /\ cellOp = "idle"
  /\ cellOut = NoOut

\* the Color operations are not in use
ColorIdle ==
  /\ target = Black
  /\ operand = Black
  /\ palette = <<>>
  /\ colorOp = "idle"
  /\ colorOut = NoColorOut

\* no Canvas is in use
CanvasIdle ==
  /\ canvas = <<>>
  /\ canvasLive = "idle"
  /\ canvasLog = <<>>

\* a Terminal with the constructor's defaults, nothing called on it
NoCall == [op |-> "none", arg |-> None, written |-> <<>>, raised |-> "no"]

TermIdle ==
  /\ termColors = 8
  /\ termPrev = NoCall
  /\ termLast = NoCall

\* nothing has been given to the key decoder
KeyIdle == keyLog = <<>>

\* no palette lookup is in use
NoLookup == [raised |-> "idle", value |-> None]
LookupIdle ==
  /\ lookupKey = IntArg(0)
  /\ lookupOut = NoLookup

InitCell ==
  /\ a \in Cells
  /\ b \in Cells
  /\ c \in Cells
  /\ cellOp = "init"
  /\ cellOut = NoOut
  /\ ColorIdle
  /\ CanvasIdle
  /\ TermIdle
  /\ KeyIdle
  /\ LookupIdle

\* overlay(top, bottom) of the specification is bottom.overlay(top)
\* r1 = overlay(a, b)
CallOverlay ==
  /\ cellOp = "init"
  /\ cellOp' = "overlay"
  /\ cellOut' = [NoOut EXCEPT !.r1 = overlay(b, a)]
  /\ UNCHANGED <<a, b, c>>
  /\ UNCHANGED otherThanCell

\* evaluates x.overlay(y) where the receiver and the argument are themselves
\* outcomes of calls: an exception raised while evaluating either propagates
OverlayOf(selfR, otherR) ==
  IF selfR.raised # "no" THEN selfR
  ELSE IF otherR.raised # "no" THEN otherR
  ELSE overlay(selfR.value, otherR.value)

\* r1 = overlay(overlay(a, b), c), r2 = overlay(a, overlay(b, c))
CallOverlayChain ==
  /\ cellOp = "init"
  /\ cellOp' = "chain"
  /\ cellOut' = [NoOut EXCEPT
                   !.r1 = OverlayOf(Return(c), overlay(b, a)),
                   !.r2 = OverlayOf(overlay(c, b), Return(a))]
  /\ UNCHANGED <<a, b, c>>
  /\ UNCHANGED otherThanCell

\* the same top over two bottoms: r1 = overlay(a, b), r2 = overlay(a, c)
CallOverlayBottoms ==
  /\ cellOp = "init"
  /\ cellOp' = "bottoms"
  /\ cellOut' = [NoOut EXCEPT !.r1 = overlay(b, a), !.r2 = overlay(c, a)]
  /\ UNCHANGED <<a, b, c>>
  /\ UNCHANGED otherThanCell

\* Cell(char, fg, bg, fx, fxt), the call of canvas.py l.94, for the fields of
\* a and of b and two transparency masks t1 and t2
CallCellNew ==
  /\ cellOp = "init"
  /\ \E t1 \in 0..MaxFxt, t2 \in 0..MaxFxt :
       cellOut' = [r1 |-> CellNew(<<a.char, a.fg, a.bg, a.fx, t1>>),
                   r2 |-> CellNew(<<b.char, b.fg, b.bg, b.fx, t2>>),
                   t1 |-> t1, t2 |-> t2]
  /\ cellOp' = "new"
  /\ UNCHANGED <<a, b, c>>
  /\ UNCHANGED otherThanCell

\* a == b
CallCellEq ==
  /\ cellOp = "init"
  /\ cellOp' = "eq"
  /\ cellOut' = [NoOut EXCEPT !.r1 = Return(CellEq(a, b))]
  /\ UNCHANGED <<a, b, c>>
  /\ UNCHANGED otherThanCell

\* r1 = a + b, r2 = a.underlay(b)
CallAdd ==
  /\ cellOp = "init"
  /\ cellOp' = "add"
  /\ cellOut' = [NoOut EXCEPT !.r1 = cell_add(a, b), !.r2 = underlay(a, b)]
  /\ UNCHANGED <<a, b, c>>
  /\ UNCHANGED otherThanCell

\* r1 = a.underlay(b), r2 = b.overlay(a)
CallUnderlay ==
  /\ cellOp = "init"
  /\ cellOp' = "underlay"
  /\ cellOut' = [NoOut EXCEPT !.r1 = underlay(a, b), !.r2 = overlay(b, a)]
  /\ UNCHANGED <<a, b, c>>
  /\ UNCHANGED otherThanCell

NextCell ==
  \/ CallAdd
  \/ CallUnderlay
  \/ CallOverlay
  \/ CallOverlayChain
  \/ CallOverlayBottoms
  \/ CallCellNew
  \/ CallCellEq

SpecCell == InitCell /\ [][NextCell]_vars

(* ---------------- Color operations ---------------- *)

\* the colours a palette is built from: Black and DarkGrey have the same
\* gamma-expanded channels, so two entries can be equally far from a target
DarkGrey == Color(10, 10, 10)
PaletteColors == {Black, DarkGrey, Red, Blue, White}

\* every grey (each channel value 0 .. 255 occurs), the palette colours and
\* two colours between palette entries
TargetColors ==
  {Color(v, v, v) : v \in 0..ChannelMax}
    \cup PaletteColors \cup {Color(0, 0, 239), Color(128, 0, 0)}

OtherColors == {Black, Blue, White}

\* the sequences over S of length 0 .. n
RECURSIVE SeqsUpTo(_, _)
SeqsUpTo(S, n) ==
  IF n = 0 THEN {<<>>}
  ELSE LET shorter == SeqsUpTo(S, n - 1)
       IN shorter \cup {Append(s, x) : s \in shorter, x \in S}

\* the same Color as an instance of color.py's class
AsColorRgb(color) == ColorRgb(Channels(color))

InitColor ==
  /\ target \in TargetColors
  /\ operand \in OtherColors
  /\ palette \in SeqsUpTo(PaletteColors, MaxPalette)
  /\ colorOp = "init"
  /\ colorOut = NoColorOut
  /\ CellIdle
  /\ CanvasIdle
  /\ TermIdle
  /\ KeyIdle
  /\ LookupIdle

\* target.mix(other), with the default gamma
CallMix ==
  /\ colorOp = "init"
  /\ colorOp' = "mix"
  /\ colorOut' = [style |-> mix(target, operand, GAMMA),
                  color |-> color_mix(AsColorRgb(target), AsColorRgb(operand), GAMMA)]
  /\ UNCHANGED <<target, operand, palette>>
  /\ UNCHANGED otherThanColor

\* target.mix(target), with the default gamma
CallMixSelf ==
  /\ colorOp = "init"
  /\ colorOp' = "mixself"
  /\ colorOut' = [style |-> mix(target, target, GAMMA),
                  color |-> color_mix(AsColorRgb(target), AsColorRgb(target), GAMMA)]
  /\ UNCHANGED <<target, operand, palette>>
  /\ UNCHANGED otherThanColor

\* target.closest_color(palette), with the default gamma
CallClosestColor ==
  /\ colorOp = "init"
  /\ colorOp' = "closest"
  /\ colorOut' =
       [style |-> closest_color(target, palette, GAMMA),
        color |-> color_closest_color(
                    AsColorRgb(target),
                    [i \in 1..Len(palette) |-> AsColorRgb(palette[i])], GAMMA)]
  /\ UNCHANGED <<target, operand, palette>>
  /\ UNCHANGED otherThanColor

\* target.mix(operand, gamma=1)
CallMixLinear ==
  /\ colorOp = "init"
  /\ colorOp' = "mixlinear"
  /\ colorOut' = [style |-> mix(target, operand, GammaOne),
                  color |-> color_mix(AsColorRgb(target), AsColorRgb(operand),
                                      GammaOne)]
  /\ UNCHANGED <<target, operand, palette>>
  /\ UNCHANGED otherThanColor

\* target.mix(target, gamma=1)
CallMixSelfLinear ==
  /\ colorOp = "init"
  /\ colorOp' = "mixselflinear"
  /\ colorOut' = [style |-> mix(target, target, GammaOne),
                  color |-> color_mix(AsColorRgb(target), AsColorRgb(target),
                                      GammaOne)]
  /\ UNCHANGED <<target, operand, palette>>
  /\ UNCHANGED otherThanColor

NextColor ==
  \/ CallMixLinear
  \/ CallMixSelfLinear
  \/ CallMix
  \/ CallMixSelf
  \/ CallClosestColor

SpecColor == InitColor /\ [][NextColor]_vars

(* ---------------- Canvas operations ---------------- *)

\* the values passed for rows and for cols
DimArgs == {NoneArg} \cup {Given(n) : n \in -1..MaxDim}

\* the values passed for fill
FillCells == {CellNew(<<>>).value, CellNew(<<"x">>).value}

\* a Canvas some earlier code has left behind, passed as the other operand
OtherCanvases == {<<>>, <<CellNew(<<>>).value>>}

\* the record of one call: its arguments, the list before and after it and
\* the exception that left it
Call(op, rows, cols, fill, before, left) ==
  [op |-> op, rows |-> rows, cols |-> cols, fill |-> fill, bottom |-> <<>>,
   before |-> before, after |-> left.canvas, raised |-> left.raised,
   value |-> None]

InitCanvas ==
  /\ canvas = <<>>
  /\ canvasLive = "none"
  /\ canvasLog = <<>>
  /\ CellIdle
  /\ ColorIdle
  /\ TermIdle
  /\ KeyIdle
  /\ LookupIdle

\* Canvas(rows, cols): the instance exists only if __init__ returns
CallCanvas ==
  /\ canvasLive = "none"
  /\ \E rows \in DimArgs, cols \in DimArgs :
       LET left == canvas_init(rows, cols)
       IN /\ canvas' = left.canvas
          /\ canvasLive' = IF left.raised = "no" THEN "live" ELSE "failed"
          /\ canvasLog' = <<Call("new", rows, cols, CellNew(<<>>).value, <<>>, left)>>
  /\ UNCHANGED otherThanCanvas

\* canvas.resize(rows, cols, fill): what the call did to the list stays, also
\* when the call raises
CallResize ==
  /\ canvasLive = "live"
  /\ Len(canvasLog) <= MaxResizes
  /\ \E rows \in DimArgs, cols \in DimArgs, fill \in FillCells :
       LET left == resize(canvas, rows, cols, fill)
       IN /\ canvas' = left.canvas
          /\ canvasLog' = Append(canvasLog, Call("resize", rows, cols, fill, canvas, left))
  /\ UNCHANGED canvasLive
  /\ UNCHANGED otherThanCanvas

\* canvas.overlay(bottom)
CallCanvasOverlay ==
  /\ canvasLive = "live"
  /\ Len(canvasLog) <= MaxResizes
  /\ \E bottom \in OtherCanvases :
       LET r == canvas_overlay(canvas, bottom)
       IN canvasLog' = Append(canvasLog,
            [Call("overlay", NoneArg, NoneArg, CellNew(<<>>).value, canvas,
                  Left(canvas, r.raised))
               EXCEPT !.bottom = bottom, !.value = r.value])
  /\ UNCHANGED <<canvas, canvasLive>>
  /\ UNCHANGED otherThanCanvas

NextCanvas ==
  \/ CallCanvas
  \/ CallResize
  \/ CallCanvasOverlay

SpecCanvas == InitCanvas /\ [][NextCanvas]_vars

(* ---------------- Terminal operations ---------------- *)

\* Terminal(stdin, stdout, colors=...)
Depths == {8, 16, 256}

\* the arguments fg and bg are called with: None, a palette id, a Color
PaletteIds == {0, 7, 8, 9, 255}
ColorArgs == {None} \cup {IntArg(n) : n \in PaletteIds} \cup TermColors

\* the argument of a text attribute method
StateArg(state) == [state |-> state]

\* one call on the Terminal: what stdout received from it, and the
\* exception that left it
TermCall(op, arg, t) ==
  [op |-> op, arg |-> arg, written |-> t.written, raised |-> t.raised]

InitTerm ==
  /\ termColors \in Depths
  /\ termPrev = NoCall
  /\ termLast = NoCall
  /\ CellIdle
  /\ ColorIdle
  /\ CanvasIdle
  /\ KeyIdle
  /\ LookupIdle

\* term.bold(state) .. term.hyperlink(state)
CallSetAttribute ==
  /\ \E name \in StyleSetters, state \in BOOLEAN, budget \in 0..SinkBudget :
       termLast' = TermCall(name, StateArg(state),
                            set_attribute(Sink(budget), name, state))
  /\ termPrev' = termLast
  /\ UNCHANGED termColors
  /\ UNCHANGED otherThanTerm

\* term.reset_style()
CallResetStyle ==
  /\ \E budget \in 0..SinkBudget :
       termLast' = TermCall("reset_style", None, reset_style(Sink(budget)))
  /\ termPrev' = termLast
  /\ UNCHANGED termColors
  /\ UNCHANGED otherThanTerm

\* term.fg(color)
CallFg ==
  /\ \E color \in ColorArgs, budget \in 0..SinkBudget :
       termLast' = TermCall("fg", color, fg(Sink(budget), termColors, color))
  /\ termPrev' = termLast
  /\ UNCHANGED termColors
  /\ UNCHANGED otherThanTerm

\* term.bg(color)
CallBg ==
  /\ \E color \in ColorArgs, budget \in 0..SinkBudget :
       termLast' = TermCall("bg", color, bg(Sink(budget), termColors, color))
  /\ termPrev' = termLast
  /\ UNCHANGED termColors
  /\ UNCHANGED otherThanTerm

\* the row and column arguments of move_to
Coords == {NoneArg} \cup {Given(n) : n \in -1..MaxCoord}
MoveArg(row, column) == [row |-> row, column |-> column]

\* term.move_to(row, column)
CallMoveTo ==
  /\ \E row \in Coords, column \in Coords, budget \in 0..SinkBudget :
       termLast' = TermCall("move_to", MoveArg(row, column),
                            move_to(Sink(budget), row, column))
  /\ termPrev' = termLast
  /\ UNCHANGED termColors
  /\ UNCHANGED otherThanTerm

NextTerm ==
  \/ CallMoveTo
  \/ CallSetAttribute
  \/ CallResetStyle
  \/ CallFg
  \/ CallBg

SpecTerm == InitTerm /\ [][NextTerm]_vars

(* ---------------- Key decoder operations ---------------- *)

PasteBegin == <<"ESC", "[", "2", "0", "0", "~">>
PasteEnd == <<"ESC", "[", "2", "0", "1", "~">>
Abc == <<"a", "b", "c">>

\* characters of the input: ESC [ A spell "up"; "q" starts no table entry
InputChars == {"ESC", "[", "A", "q"}

\* the chunks of input a read hands to the decoder: short strings, and
\* the pieces of a bracketed paste
Chunks ==
  SeqsUpTo(InputChars, MaxChunk)
    \cup {<<"ESC", "[", "A">>, PasteBegin, Abc, PasteEnd,
          PasteBegin \o Abc \o PasteEnd,
          PasteBegin \o <<"a">>, <<"b", "c">> \o PasteEnd}

KeyCall(op, raw, out) ==
  [op |-> op, raw |-> raw, raised |-> out.raised, value |-> out.value]

InitKeys ==
  /\ keyLog = <<>>
  /\ CellIdle
  /\ ColorIdle
  /\ CanvasIdle
  /\ TermIdle
  /\ LookupIdle

\* term.parse_keys(raw)
CallParseKeys ==
  /\ Len(keyLog) < MaxKeyCalls
  /\ \E raw \in Chunks :
       keyLog' = Append(keyLog, KeyCall("parse_keys", raw, parse_keys(KEYS, raw)))
  /\ UNCHANGED otherThanKeys

\* term.collect_events(): no more input has arrived
CallCollectEvents ==
  /\ Len(keyLog) < MaxKeyCalls
  /\ keyLog' = Append(keyLog, KeyCall("collect_events", <<>>, collect_events))
  /\ UNCHANGED otherThanKeys

NextKeys ==
  \/ CallParseKeys
  \/ CallCollectEvents

SpecKeys == InitKeys /\ [][NextKeys]_vars

(* ---------------- ColorPalette operations ---------------- *)

\* the characters a hex key is spelled with here: "g" is no hex digit
HexKeyChars == {"#", "0", "f", "g", "+"}

\* the keys given to colors[...]: '#' followed by up to MaxHexLen
\* characters; keys with a space, a minus sign, an underscore, the
\* prefix 0x, upper case or seven digits; names; ids
LookupKeys ==
  {StrArg(<<"#">> \o s) : s \in SeqsUpTo(HexKeyChars, MaxHexLen)}
    \cup {StrArg(s) : s \in {<<"#", " ", "0", "0", "0", "0", "f">>,
                             <<"#", "-", "0", "0", "0", "0", "1">>,
                             <<"#", "0", "_", "0", "0", "0", "f">>,
                             <<"#", "0", "x", "0", "0", "0", "f">>,
                             <<"#", "F", "F", "A", "A", "0", "0">>,
                             <<"#", "0", "0", "0", "0", "0", "0", "0">>,
                             <<"r", "e", "d">>, <<"n", "o", "p", "e">>, <<>>}}
    \cup {IntArg(n) : n \in {-257, -1, 0, 15, 255, 256}}

InitLookup ==
  /\ lookupKey \in LookupKeys
  /\ lookupOut = NoLookup
  /\ CellIdle
  /\ ColorIdle
  /\ CanvasIdle
  /\ TermIdle
  /\ KeyIdle

\* colors[lookupKey]
CallGetItem ==
  /\ lookupOut = NoLookup
  /\ lookupOut' = getitem(lookupKey)
  /\ UNCHANGED lookupKey
  /\ UNCHANGED otherThanLookup

NextLookup == CallGetItem

SpecLookup == InitLookup /\ [][NextLookup]_vars

(* ------------------------------------------------------------------ *)
(* Cell: properties                                                    *)
(* ------------------------------------------------------------------ *)

\* positions of the ten attribute flags BOLD .. HYPERLINK (style.py l.111-120)
AttributeBits == 0..9

\* bit i of a non-negative mask
Bit(x, i) == (x \div (2 ^ i)) % 2

\* the call returned a Cell that stores all five fields
ReturnedCell(r) ==
  /\ r.raised = "no"
  /\ DOMAIN r.value = {"char", "fg", "bg", "fx", "fxt"}

\* equality of two five-field Cells
SameCell(x, y) ==
  /\ CellEq(x, y)
  /\ x.fxt = y.fxt

\* C1: overlay is associative: overlay(overlay(a,b),c) and overlay(a,overlay(b,c))
\* both yield a Cell and the two Cells are equal.
C1_OverlayAssociative ==
  cellOp = "chain" =>
    /\ ReturnedCell(cellOut.r1)
    /\ ReturnedCell(cellOut.r2)
    /\ SameCell(cellOut.r1.value, cellOut.r2.value)

\* C2: in overlay(top, bottom) every attribute bit is bottom's where top's
\* transparency bit is set and top's where it is clear.
C2_OverlayAttributeBits ==
  cellOp = "overlay" =>
    /\ ReturnedCell(cellOut.r1)
    /\ HasAttr(a, "fxt")
    /\ \A i \in AttributeBits :
         Bit(cellOut.r1.value.fx, i) =
           IF Bit(a.fxt, i) = 1 THEN Bit(b.fx, i) ELSE Bit(a.fx, i)

\* C3: in overlay(top, bottom) a transparency bit of the result is set iff
\* it is set in both top's and bottom's transparency masks.
C3_OverlayTransparencyBits ==
  cellOp = "overlay" =>
    /\ ReturnedCell(cellOut.r1)
    /\ HasAttr(a, "fxt")
    /\ HasAttr(b, "fxt")
    /\ \A i \in AttributeBits :
         Bit(cellOut.r1.value.fxt, i) = 1
           <=> (Bit(a.fxt, i) = 1 /\ Bit(b.fxt, i) = 1)

\* C4: overlay(top, bottom) has top's glyph when it is non-empty, else
\* bottom's; foreground and background are top's when set (black included),
\* else bottom's.
C4_OverlayGlyphAndColours ==
  cellOp = "overlay" =>
    /\ cellOut.r1.raised = "no"
    /\ cellOut.r1.value.char = (IF a.char # "" THEN a.char ELSE b.char)
    /\ cellOut.r1.value.fg = (IF a.fg # None THEN a.fg ELSE b.fg)
    /\ cellOut.r1.value.bg = (IF a.bg # None THEN a.bg ELSE b.bg)

\* no field of the Cell holds its sentinel and no attribute bit is transparent
FullyOpaque(x) ==
  /\ x.char # ""
  /\ x.fg # None
  /\ x.bg # None
  /\ HasAttr(x, "fxt") => x.fxt = 0

\* C5: with a fully opaque top, overlay(top, bottom) is the same Cell for
\* every bottom, and that Cell equals top.
C5_OpaqueTopIgnoresBottom ==
  (cellOp = "bottoms" /\ FullyOpaque(a)) =>
    /\ cellOut.r1.raised = "no"
    /\ cellOut.r2.raised = "no"
    /\ cellOut.r1.value = cellOut.r2.value
    /\ CellEq(cellOut.r1.value, a)

\* C6: Cells built from five fields are equal iff all five fields are equal;
\* two that differ only in the transparency mask are not equal.
C6_CellEqualityFiveFields ==
  cellOp = "new" =>
    /\ ReturnedCell(cellOut.r1)
    /\ ReturnedCell(cellOut.r2)
    /\ (cellOut.r1.value = cellOut.r2.value)
         <=> (CellEq(a, b) /\ cellOut.t1 = cellOut.t2)

(* ------------------------------------------------------------------ *)
(* Color: properties                                                   *)
(* ------------------------------------------------------------------ *)

\* C7: mixing a colour with itself returns that colour (default gamma), in
\* style.py and in color.py.
C7_MixSelfIsIdentity ==
  colorOp = "mixself" =>
    /\ colorOut.style = Return(target)
    /\ colorOut.color = Return(AsColorRgb(target))

\* C8: red mixed with blue is exactly (186, 0, 186) and white mixed with
\* black is exactly (186, 186, 186), in style.py and in color.py.
C8_MixRedBlueWhiteBlack ==
  colorOp = "mix" =>
    /\ (target = Red /\ operand = Blue) =>
         /\ colorOut.style = Return(Color(186, 0, 186))
         /\ colorOut.color = Return(ColorRgb(<<186, 0, 186>>))
    /\ (target = White /\ operand = Black) =>
         /\ colorOut.style = Return(Color(186, 186, 186))
         /\ colorOut.color = Return(ColorRgb(<<186, 186, 186>>))

\* red has been mixed with blue
C8_Witness ==
  /\ colorOp = "mix"
  /\ target = Red
  /\ operand = Blue
  /\ colorOut.style.raised = "no"
  /\ colorOut.style.value.red = 186

\* C9: closest_color of a colour that occurs in the palette returns the
\* pair (that colour, 0).
C9_ClosestColorShortCircuit ==
  (colorOp = "closest" /\ Contains(palette, target)) =>
    colorOut.style = Return(<<target, 0>>)

\* the target was found in a palette whose first entry is another colour
C9_Witness ==
  /\ colorOp = "closest"
  /\ Len(palette) = 2
  /\ palette[1] # target
  /\ palette[2] = target
  /\ colorOut.style.raised = "no"
  /\ colorOut.style.value[1] = target

C11_ClosestColorReturnsDistance ==
  (colorOp = "closest" /\ Len(palette) > 0) =>
    /\ colorOut.style.raised = "no"
    /\ colorOut.style.value[2] =
         difference(target, colorOut.style.value[1], GAMMA)

(* ------------------------------------------------------------------ *)
(* Canvas: properties                                                  *)
(* ------------------------------------------------------------------ *)

\* the calls made so far
Calls == {canvasLog[k] : k \in 1..Len(canvasLog)}

\* C12: after Canvas(rows, cols) and after every resize(rows, cols, fill) with
\* non-negative arguments the call has returned, the canvas has exactly rows
\* rows, every row is a list of exactly cols Cells, and every Cell of an
\* added row or column is the fill.
C12_CanvasHasRequestedShape ==
  \A e \in Calls :
    (/\ e.op \in {"new", "resize"}
     /\ e.rows # NoneArg /\ e.cols # NoneArg
     /\ e.rows[1] >= 0 /\ e.cols[1] >= 0) =>
      /\ e.raised = "no"
      /\ Len(e.after) = e.rows[1]
      /\ \A i \in 1..Len(e.after) :
           /\ PyLen(e.after[i]) = Return(e.cols[1])
           /\ \A j \in 1..e.cols[1] :
                (i > Len(e.before) \/ j > Len(e.before[i].list)) =>
                  e.after[i].list[j] = e.fill

\* C13: a resize that grows the canvas (rows, columns or both) followed by a
\* resize back to the original dimensions: both calls return and the canvas
\* is again what it was.
C13_GrowThenShrinkRestores ==
  \A k \in 1..(Len(canvasLog) - 1) :
    LET grow == canvasLog[k]
        back == canvasLog[k + 1]
        orig == grow.before
        R == canvas_rows(orig)
        C == canvas_cols(orig)
    IN (/\ grow.op = "resize" /\ back.op = "resize"
        /\ C.raised = "no"
        /\ grow.rows # NoneArg => grow.rows[1] >= R
        /\ grow.cols # NoneArg => grow.cols[1] >= C.value
        /\ \/ (grow.rows # NoneArg /\ grow.rows[1] > R)
           \/ (grow.cols # NoneArg /\ grow.cols[1] > C.value)
        /\ back.rows = Given(R) /\ back.cols = Given(C.value)) =>
         /\ grow.raised = "no"
         /\ back.raised = "no"
         /\ back.after = orig

\* C14: resize with a negative rows or a negative cols raises an
\* invalid-argument error (ValueError) and leaves the canvas as it was.
C14_NegativeResizeRejected ==
  \A e \in Calls :
    (/\ e.op = "resize"
     /\ \/ (e.rows # NoneArg /\ e.rows[1] < 0)
        \/ (e.cols # NoneArg /\ e.cols[1] < 0)) =>
      /\ e.raised = "ValueError"
      /\ e.after = e.before

\* two canvases have the same row count and the same column count
SameShape(x, y) ==
  /\ canvas_rows(x) = canvas_rows(y)
  /\ canvas_cols(x) = canvas_cols(y)

\* C15: overlaying two canvases of different shape raises a shape-mismatch
\* error (ValueError); with equal shapes it returns a new canvas whose cell
\* [r][c] is overlay(top[r][c], bottom[r][c]); the operands are not modified.
C15_CanvasOverlay ==
  \A e \in Calls :
    e.op = "overlay" =>
      /\ e.after = e.before
      /\ ~SameShape(e.before, e.bottom) => e.raised = "ValueError"
      /\ SameShape(e.before, e.bottom) =>
           /\ e.raised = "no"
           /\ Len(e.value) = Len(e.before)
           /\ \A r \in 1..Len(e.before) :
                \A col \in 1..Len(e.before[r].list) :
                  Return(e.value[r].list[col]) =
                    overlay(e.bottom[r].list[col], e.before[r].list[col])

(* ------------------------------------------------------------------ *)
(* Terminal: properties                                                *)
(* ------------------------------------------------------------------ *)

\* the methods that set one field of the style: a colour or an attribute
StyleMethods == StyleSetters \cup {"fg", "bg"}

\* C16: once a style setter has written its value to the sink, the same
\* setter called again with the same argument writes nothing.
C16_RepeatedStyleWritesNothing ==
  ( /\ termPrev.op \in StyleMethods
    /\ termPrev.raised = "no"
    /\ termPrev.written # <<>>
    /\ termLast.op = termPrev.op
    /\ termLast.arg = termPrev.arg )
  => ( /\ termLast.written = <<>>
       /\ termLast.raised = "no" )

\* the sequences move_to is to write for its arguments
ExpectedMove(row, column) ==
  IF row # NoneArg /\ column # NoneArg
  THEN <<(<<"MOVE_CURSOR", row[1], column[1]>>)>>
  ELSE IF column # NoneArg THEN <<(<<"MOVE_COLUMN", column[1]>>)>>
  ELSE IF row # NoneArg THEN <<(<<"MOVE_ROW", row[1]>>)>>
  ELSE <<>>

\* C22: a move_to that returns has written the absolute position of
\* every axis whose argument is not None, 0 included, and of no other.
C22_MoveToEveryGivenAxis ==
  (termLast.op = "move_to" /\ termLast.raised = "no")
  => termLast.written = ExpectedMove(termLast.arg.row, termLast.arg.column)

Negative(x) == x # NoneArg /\ x[1] < 0

\* C23: move_to with a negative row or column raises ValueError and
\* writes nothing.
C23_MoveToNegativeRejected ==
  ( /\ termLast.op = "move_to"
    /\ Negative(termLast.arg.row) \/ Negative(termLast.arg.column) )
  => /\ termLast.raised = "ValueError"
     /\ termLast.written = <<>>

C23_Witness ==
  /\ termLast.op = "move_to"
  /\ termLast.arg = MoveArg(Given(-1), Given(1))
  /\ termLast.raised = "ValueError"
  /\ termLast.written = <<>>

TrueColorSequences == {"FGCOLOR_TRUE", "BGCOLOR_TRUE"}

\* C24: when the first write of fg(Color) or bg(Color) fails, the error
\* of the sink leaves the call and the true-colour sequence is not
\* written; no failed call writes anything after the failure.
C24_WriteFailurePropagates ==
  (termLast.op \in {"fg", "bg"} /\ termLast.arg \in TermColors)
  => /\ termLast.written = <<>> => termLast.raised = "OSError"
     /\ termLast.raised # "no"
          => /\ termLast.raised = "OSError"
             /\ \A i \in 1..Len(termLast.written) :
                  termLast.written[i][1] \notin TrueColorSequences

C24_Witness ==
  /\ termLast.op = "fg"
  /\ termLast.arg = Red
  /\ termLast.raised = "OSError"
  /\ termLast.written = <<>>

\* the colour parameter an indexed colour sequence may carry
ValidIds(sequence) ==
  CASE sequence \in {"FGCOLOR_8", "BGCOLOR_8", "FGCOLOR_16", "BGCOLOR_16"} -> 0..7
    [] sequence \in {"FGCOLOR_256", "BGCOLOR_256"} -> 0..255

IndexedSequences == {"FGCOLOR_8", "BGCOLOR_8", "FGCOLOR_16", "BGCOLOR_16",
                     "FGCOLOR_256", "BGCOLOR_256"}

\* the sequences a Terminal of that depth may use
DepthSequences(colors) ==
  CASE colors = 8 -> {"FGCOLOR_8", "BGCOLOR_8"}
    [] colors = 16 -> {"FGCOLOR_8", "BGCOLOR_8", "FGCOLOR_16", "BGCOLOR_16"}
    [] colors = 256 -> {"FGCOLOR_256", "BGCOLOR_256"}

\* C25: every indexed colour sequence written by fg or bg belongs to the
\* configured depth and carries a colour parameter valid for it.
C25_ColourWithinDepth ==
  termLast.op \in {"fg", "bg"}
  => \A i \in 1..Len(termLast.written) :
       LET sequence == termLast.written[i]
       IN sequence[1] \in IndexedSequences
            => /\ sequence[1] \in DepthSequences(termColors)
               /\ sequence[2] \in ValidIds(sequence[1])

\* the palette position of the first colour of the table nearest to each
\* Color: the pairs (color, position)
NearestPositions ==
  {<<color, FirstMin([i \in 1..Len(ColorsPalette) |->
                        difference(color, ColorsPalette[i], GAMMA)],
                     Len(ColorsPalette)) - 1>> : color \in TermColors}
NearestPosition(color) ==
  (CHOOSE pair \in NearestPositions : pair[1] = color)[2]

\* C26: with 256 colours, fg(c) and bg(c) first write the 256-colour
\* sequence of the palette position of the colour nearest to c, the
\* first occurrence of c if c is in the table.
C26_ClosestPaletteId ==
  ( /\ termColors = 256
    /\ termLast.op \in {"fg", "bg"}
    /\ termLast.arg \in TermColors
    /\ Len(termLast.written) >= 1 )
  => /\ termLast.written[1][1] \in {"FGCOLOR_256", "BGCOLOR_256"}
     /\ termLast.written[1][2] = NearestPosition(termLast.arg)

(* ------------------------------------------------------------------ *)
(* Key decoder: properties                                             *)
(* ------------------------------------------------------------------ *)

KeyCalls == {keyLog[i] : i \in 1..Len(keyLog)}

IsPrefix(p, s) == Len(p) <= Len(s) /\ SubSeq(s, 1, Len(p)) = p

\* the table entries that are a prefix of raw, and the longest of them
PrefixEntries(raw) ==
  {i \in 1..Len(KEYS) : IsPrefix(KEYS[i].value, raw)}
LongestEntries(raw) ==
  {i \in PrefixEntries(raw) :
     \A j \in PrefixEntries(raw) : Len(KEYS[j].value) <= Len(KEYS[i].value)}

\* the call returned a list of events
ReturnedEvents(call) == call.raised = "no" /\ HasAttr(call.value, "list")

\* the event names the key of a table entry, with its modifier bits
EventOf(event, entry) ==
  /\ HasAttr(event, "key")
  /\ event.key = entry.key
  /\ event.modifiers = entry.modifiers

\* C17: an input that begins with table sequences is decoded to the event
\* of the longest entry that is a prefix of it; ESC [ A alone gives
\* exactly one event, "up" without modifiers.
C17_LongestPrefixDecoded ==
  \A call \in KeyCalls :
    (call.op = "parse_keys" /\ PrefixEntries(call.raw) # {})
    => /\ ReturnedEvents(call)
       /\ Len(call.value.list) >= 1
       /\ \E i \in LongestEntries(call.raw) : EventOf(call.value.list[1], KEYS[i])
       /\ call.raw = <<"ESC", "[", "A">>
            => /\ Len(call.value.list) = 1
               /\ call.value.list[1].key = "up"
               /\ call.value.list[1].modifiers = 0

\* C18: ESC alone gives no event when it is decoded, and exactly one
\* event, "escape", once the wait for more input has ended.
C18_LoneEscapeAfterTimeout ==
  ( /\ Len(keyLog) = 2
    /\ keyLog[1].op = "parse_keys"
    /\ keyLog[1].raw = <<"ESC">>
    /\ keyLog[2].op = "collect_events" )
  => /\ ReturnedEvents(keyLog[1])
     /\ keyLog[1].value.list = <<>>
     /\ ReturnedEvents(keyLog[2])
     /\ Len(keyLog[2].value.list) = 1
     /\ keyLog[2].value.list[1].key = "escape"

RECURSIVE Fed(_)
\* all the characters given to parse_keys by the first n calls
Fed(n) ==
  IF n = 0 THEN <<>>
  ELSE Fed(n - 1) \o keyLog[n].raw

RECURSIVE Emitted(_)
\* all the events returned by the first n calls
Emitted(n) ==
  IF n = 0 THEN <<>>
  ELSE Emitted(n - 1) \o keyLog[n].value.list

\* C19: paste begin, "abc", paste end, in whatever chunks, give exactly
\* one event: a paste whose payload is "abc".
C19_BracketedPasteOneEvent ==
  ( /\ \A call \in KeyCalls : call.op = "parse_keys"
    /\ Fed(Len(keyLog)) = PasteBegin \o Abc \o PasteEnd )
  => /\ \A call \in KeyCalls : ReturnedEvents(call)
     /\ Len(Emitted(Len(keyLog))) = 1
     /\ Emitted(Len(keyLog))[1].key = "paste"
     /\ Emitted(Len(keyLog))[1].value = Abc

\* the characters that start no entry of the key table
StartsNoEntry(ch) == \A i \in 1..Len(KEYS) : KEYS[i].value[1] # ch

\* C20: decoding raises no error on any input, and an input whose first
\* character starts no table entry gives that character as its first
\* event.
C20_DecodingNeverFails ==
  \A call \in KeyCalls :
    call.op = "parse_keys"
    => /\ ReturnedEvents(call)
       /\ (Len(call.raw) > 0 /\ StartsNoEntry(call.raw[1]))
            => /\ Len(call.value.list) >= 1
               /\ call.value.list[1].value = <<call.raw[1]>>

(* ------------------------------------------------------------------ *)
(* ColorPalette: properties                                            *)
(* ------------------------------------------------------------------ *)

\* the key is '#' followed by exactly six hexadecimal digits
IsHexKey(chars) ==
  /\ Len(chars) = 7
  /\ chars[1] = "#"
  /\ \A i \in 2..7 : chars[i] \in HexChars

\* the channels spelled by a hex key
HexChannels(chars) ==
  <<DigitValue(chars[2]) * 16 + DigitValue(chars[3]),
    DigitValue(chars[4]) * 16 + DigitValue(chars[5]),
    DigitValue(chars[6]) * 16 + DigitValue(chars[7])>>

\* C21: a lookup by a str starting with '#' returns the Color of the
\* channels if the rest is six hexadecimal digits; every other such key
\* is rejected with an error and returns no Color.
C21_HexKeyAcceptedOrRejected ==
  ( /\ lookupOut # NoLookup
    /\ HasAttr(lookupKey, "str")
    /\ Len(lookupKey.str) > 0
    /\ lookupKey.str[1] = "#" )
  => IF IsHexKey(lookupKey.str)
     THEN lookupOut = Return(ColorRgb(HexChannels(lookupKey.str)))
     ELSE lookupOut.raised \in {"KeyError", "ValueError"}

DecimalDigits == {"0", "1", "2", "3", "4", "5", "6", "7", "8", "9"}

\* the sequence has the form ESC [ n ; B final, n a decimal number and B
\* one decimal digit
ModifierForm(value) ==
  /\ Len(value) >= 6
  /\ value[1] = "ESC"
  /\ value[2] = "["
  /\ \A i \in 3..(Len(value) - 3) : value[i] \in DecimalDigits
  /\ value[Len(value) - 2] = ";"
  /\ value[Len(value) - 1] \in DecimalDigits

\* C27: an entry of the key table of the form ESC [ n ; B final has the
\* modifier bits B - 1 (shift 1, meta 2, ctrl 4), in the table every call of
\* the decoder reads.
\* the entries of the table whose bits differ from B - 1
WrongModifiers ==
  {i \in 1..Len(KEYS) :
     /\ ModifierForm(KEYS[i].value)
     /\ KEYS[i].modifiers
          # DigitValue(KEYS[i].value[Len(KEYS[i].value) - 1]) - 1}

C27_ModifierBitsOfTable ==
  \A i \in 1..Len(keyLog) :
    keyLog[i].op = "parse_keys" => WrongModifiers = {}

\* C28: parse_keys ends for every input, and it ends by returning a list
\* of Key events.
C28_ParseKeysReturnsList ==
  \A i \in 1..Len(keyLog) :
    keyLog[i].op = "parse_keys"
    => /\ keyLog[i].raised # "hang"
       /\ keyLog[i].raised = "no"
       /\ HasAttr(keyLog[i].value, "list")
       /\ \A j \in 1..Len(keyLog[i].value.list) :
            HasAttr(keyLog[i].value.list[j], "key")

(* ------------------------------------------------------------------ *)
(* Cell: compositing operators                                         *)
(* ------------------------------------------------------------------ *)

\* the call returned a Cell
IsCell(r) == r.raised = "no" /\ HasAttr(r.value, "char")

\* C29: a + b and a.underlay(b) return the same Cell, and a.underlay(b)
\* and b.overlay(a) return the same Cell.
C29_CompositingReturnsCells ==
  cellOp \in {"add", "underlay"}
  => /\ IsCell(cellOut.r1)
     /\ IsCell(cellOut.r2)
     /\ cellOut.r1 = cellOut.r2

(* ------------------------------------------------------------------ *)
(* Color: mix with the caller's gamma                                  *)
(* ------------------------------------------------------------------ *)

\* round((x + y) / 2) for each channel
Average(x, y) ==
  Color(RoundHalf(x.red + y.red), RoundHalf(x.green + y.green),
        RoundHalf(x.blue + y.blue))

\* C30: with gamma = 1 both implementations of mix return the rounded
\* average of the channels, so a colour mixed with itself is unchanged.
C30_MixUsesCallersGamma ==
  /\ colorOp = "mixlinear"
       => /\ colorOut.style = Return(Average(target, operand))
          /\ colorOut.color = Return(AsColorRgb(Average(target, operand)))
  /\ colorOp = "mixselflinear"
       => /\ colorOut.style = Return(target)
          /\ colorOut.color = Return(AsColorRgb(target))

====
